---- MODULE Spec2Model ----
(***************************************************************************)
(* Model of bdgenomics/workflows/tools/spark_tools.py: the MasterAddress   *)
(* wrapper, the spark-submit parameter assembler _make_parameters and the  *)
(* per-tool call_* functions built on them.                                *)
(*                                                                         *)
(* The functions keep no state between invocations, so a behaviour is one  *)
(* invocation: from the idle state an action draws the arguments of one    *)
(* function, runs the whole function and records its outcome (returned     *)
(* value or raised error) together with every container run, local process *)
(* invocation and log message it made.                                     *)
(*                                                                         *)
(* Python values: a list is a sequence of strings; an optional value is a  *)
(* record [isNone, v]; a MasterAddress is [isNone, nominal, actual] where  *)
(* nominal is the str value of the object and actual its .actual field.    *)
(***************************************************************************)
EXTENDS Integers, Sequences, FiniteSets, TLC

\* ---------------------------------------------------------------- bounds
MaxLen == 2
MaxMemory == 1
\* successive calls of _make_parameters on the same caller objects
MaxCalls == 2

\* ------------------------------------------------------ module constants
SPARK_MASTER_PORT == "7077"
HDFS_MASTER_PORT == "8020"

\* --------------------------------------------------------- python values
NoneList == [isNone |-> TRUE, v |-> <<>>]
NoneInt == [isNone |-> TRUE, v |-> 0]
NoneStr == [isNone |-> TRUE, v |-> ""]
NoneAddress == [isNone |-> TRUE, nominal |-> "", actual |-> ""]
Some(x) == [isNone |-> FALSE, v |-> x]
MasterAddress(master_ip) == [isNone |-> FALSE, nominal |-> master_ip, actual |-> master_ip]
WithActual(addr, a) == [addr EXCEPT !.actual = a]

\* truth value of an optional string (None and '' are false)
Truthy(s) == ~s.isNone /\ s.v # ""
\* truth value of a master_ip argument (None and the empty address are false)
TruthyAddress(m) == ~m.isNone /\ m.nominal # ""

\* '%s' % memory for an int
Str(n) == ToString(n)

\* ------------------------------------------------- MasterAddress methods
docker_parameters_nominal(self, params) ==
    IF self.nominal # self.actual
    THEN LET add_host_option == "--add-host=spark-master:" \o self.nominal
         IN  IF params.isNone
             THEN [ret |-> Some(<<add_host_option>>), arg |-> params]
             ELSE [ret |-> Some(Append(params.v, add_host_option)),
                   arg |-> Some(Append(params.v, add_host_option))]
    ELSE [ret |-> params, arg |-> params]

\* ret is the returned value, arg the caller's list object after the call
\* (list.append changes it in place and the same object is returned)
docker_parameters(self, params) ==
    IF self.nominal # self.actual
    THEN LET add_host_option == "--add-host=spark-master:" \o self.actual
         IN  IF params.isNone
             THEN [ret |-> Some(<<add_host_option>>), arg |-> params]
             ELSE [ret |-> Some(Append(params.v, add_host_option)),
                   arg |-> Some(Append(params.v, add_host_option))]
    ELSE [ret |-> params, arg |-> params]

\* ---------------------------------------------------- _make_parameters
ExactlyOne_AtLeastOne(memory, override_parameters) ==
    ~override_parameters.isNone \/ ~memory.isNone

\* the condition handed to require()
ExactlyOne(memory, override_parameters) ==
    /\ (~override_parameters.isNone \/ ~memory.isNone)
    /\ (override_parameters.isNone \/ memory.isNone)

MemoryParameters_DriverOnly(memory) ==
    <<"--conf", "spark.driver.memory=" \o Str(memory) \o "g">>

MemoryParameters(memory) ==
    <<"--conf", "spark.driver.memory=" \o Str(memory) \o "g",
      "--conf", "spark.executor.memory=" \o Str(memory) \o "g">>

EngineParameters_NoOverrides(memory, override_parameters) ==
    IF ~memory.isNone THEN MemoryParameters(memory.v) ELSE <<>>

\* memory defaults, or the user's overrides
EngineParameters(memory, override_parameters) ==
    IF ~memory.isNone THEN MemoryParameters(memory.v) ELSE override_parameters.v

MasterParameters_SwappedPorts(master_ip) ==
    <<"--master", "spark://" \o master_ip.nominal \o ":" \o HDFS_MASTER_PORT,
      "--conf", "spark.hadoop.fs.default.name=hdfs://" \o master_ip.nominal \o ":" \o SPARK_MASTER_PORT>>

MasterParameters(master_ip) ==
    <<"--master", "spark://" \o master_ip.nominal \o ":" \o SPARK_MASTER_PORT,
      "--conf", "spark.hadoop.fs.default.name=hdfs://" \o master_ip.nominal \o ":" \o HDFS_MASTER_PORT>>

make_parameters_NoSeparator(master_ip, default_parameters, memory, arguments, override_parameters) ==
    IF ~ExactlyOne(memory, override_parameters)
    THEN [err |-> "UserError", ret |-> <<>>]
    ELSE [err |-> "",
          ret |-> EngineParameters(memory, override_parameters)
                  \o (IF TruthyAddress(master_ip) THEN MasterParameters(master_ip) ELSE <<>>)
                  \o default_parameters
                  \o arguments]

\* err = "UserError" when require() raises, else ret is the returned list
make_parameters(master_ip, default_parameters, memory, arguments, override_parameters) ==
    IF ~ExactlyOne(memory, override_parameters)
    THEN [err |-> "UserError", ret |-> <<>>]
    ELSE [err |-> "",
          ret |-> EngineParameters(memory, override_parameters)
                  \o (IF TruthyAddress(master_ip) THEN MasterParameters(master_ip) ELSE <<>>)
                  \o default_parameters
                  \o <<"--">>
                  \o arguments]

\* The same function on list objects. The objects of a call are the caller's
\* three lists and the list the function creates ("new"); a heap gives the
\* elements of each. None for override_parameters is the empty object here,
\* it is never read in that case.
Heap(default_parameters, arguments, override_parameters) ==
    [default_parameters |-> default_parameters, arguments |-> arguments,
     override_parameters |-> override_parameters, new |-> <<>>]

\* list.extend / list.append on the object ref
Extend(heap, ref, items) == [heap EXCEPT ![ref] = @ \o items]

StartParameters_Alias(heap, memory) ==
    IF ~memory.isNone
    THEN [ref |-> "new", heap |-> [heap EXCEPT !.new = MemoryParameters(memory.v)]]
    ELSE [ref |-> "override_parameters", heap |-> heap]

\* parameters = [] and the if/else on memory: the object parameters names
\* from then on, and the heap
StartParameters(heap, memory) ==
    IF ~memory.isNone
    THEN [ref |-> "new", heap |-> [heap EXCEPT !.new = MemoryParameters(memory.v)]]
    ELSE [ref |-> "new", heap |-> Extend([heap EXCEPT !.new = <<>>], "new",
                                         heap.override_parameters)]

\* ref is the object returned ("" when require() raises), heap the objects
\* after the call
make_parameters_objects(master_ip, heap, memory, override_given) ==
    IF ~ExactlyOne(memory, [isNone |-> ~override_given, v |-> heap.override_parameters])
    THEN [err |-> "UserError", ref |-> "", heap |-> heap]
    ELSE LET s == StartParameters(heap, memory)
             h1 == IF TruthyAddress(master_ip)
                   THEN Extend(s.heap, s.ref, MasterParameters(master_ip))
                   ELSE s.heap
             h2 == Extend(h1, s.ref, h1.default_parameters)
             h3 == Extend(h2, s.ref, <<"--">>)
             h4 == Extend(h3, s.ref, h3.arguments)
         IN  [err |-> "", ref |-> s.ref, heap |-> h4]

\* ------------------------------------------------------ external effects
\* Outcome of a whole function: err is "" on a normal return, else the error
\* raised to the caller; dockerCalls, checkCalls and log are the container
\* runs, local process invocations and log messages made, in order.
Outcome(e, dockers, checks, msgs) ==
    [err |-> e, dockerCalls |-> dockers, checkCalls |-> checks, log |-> msgs]

\* dockerCall(job, tool, parameters, dockerParameters)
DockerRun(tool, parameters, dockerParameters) ==
    [tool |-> tool, parameters |-> parameters, dockerParameters |-> dockerParameters]

\* what an external run that exits non-zero raises
ProcessError == "CalledProcessError"
RunError(exit_ok) == IF exit_ok THEN "" ELSE ProcessError

\* os.path.join of a directory without trailing separator and a relative path
PathJoin(a, b) == a \o "/" \o b

\* ------------------------------------------------------- call_conductor
call_conductor(master_ip, src, dst, memory, override_parameters, exit_ok) ==
    LET arguments == <<"-C", src, dst>>
        dp == <<"--log-driver", "none",
                docker_parameters(master_ip, Some(<<"--net=host">>)).ret.v>>
        p == make_parameters(master_ip, <<>>, memory, arguments, override_parameters)
    IN  IF p.err # ""
        THEN Outcome(p.err, <<>>, <<>>, <<>>)
        ELSE Outcome(RunError(exit_ok),
                     <<DockerRun("quay.io/ucsc_cgl/conductor", p.ret, dp)>>, <<>>, <<>>)

\* ------------------------------------------------------------ call_adam
AdamMaster(master_ip, run_local) ==
    IF run_local
    THEN <<"--master", "local[*]">>
    ELSE <<"--master", "spark://" \o master_ip.nominal \o ":" \o SPARK_MASTER_PORT,
           "--conf", "spark.hadoop.fs.default.name=hdfs://" \o master_ip.nominal \o ":" \o HDFS_MASTER_PORT>>

AdamDefaults(master_ip, run_local) ==
    AdamMaster(master_ip, run_local)
    \o <<"--conf", "spark.driver.maxResultSize=0",
         "--conf", "spark.storage.memoryFraction=0.3",
         "--conf", "spark.storage.unrollFraction=0.1",
         "--conf", "spark.network.timeout=300s">>

call_adam(master_ip, arguments, memory, override_parameters, run_local, native_adam_path, exit_ok) ==
    LET default_params == AdamDefaults(master_ip, run_local)
    IN  IF native_adam_path.isNone
        THEN LET dp == <<"--log-driver", "none",
                         docker_parameters(master_ip, Some(<<"--net=host">>)).ret.v>>
                 p == make_parameters(master_ip, default_params, memory, arguments,
                                      override_parameters)
             IN  IF p.err # ""
                 THEN Outcome(p.err, <<>>, <<>>, <<>>)
                 ELSE Outcome(RunError(exit_ok),
                              <<DockerRun("quay.io/ucsc_cgl/adam:962-ehf--6e7085f8cac4b9a927dc9fb06b48007957256b80",
                                          p.ret, dp)>>, <<>>, <<>>)
        ELSE Outcome(RunError(exit_ok), <<>>,
                     <<(<<PathJoin(native_adam_path.v, "bin/adam-submit")>>
                        \o default_params \o arguments)>>, <<>>)

\* ------------------------------------- defaults shared by deca and mango
LocalMaster(run_local) == IF run_local THEN <<"--master", "local[*]">> ELSE <<>>

S3Defaults(run_local) ==
    LocalMaster(run_local)
    \o <<"--conf", "spark.driver.maxResultSize=0",
         "--conf", "spark.hadoop.hadoopbam.bam.enable-bai-splitter=true",
         "--packages", "com.amazonaws:aws-java-sdk-pom:1.10.34,org.apache.hadoop:hadoop-aws:2.7.4",
         "--conf", "spark.hadoop.fs.s3a.impl=org.apache.hadoop.fs.s3a.S3AFileSystem">>

AwsDockerParameters_Swapped(aws_access_key_id, aws_secret_access_key) ==
    <<"-e", "AWS_ACCESS_KEY_ID=" \o aws_secret_access_key,
      "-e", "AWS_SECRET_ACCESS_KEY=" \o aws_access_key_id>>

\* the environment variables set on the container
AwsDockerParameters(aws_access_key_id, aws_secret_access_key) ==
    <<"-e", "AWS_ACCESS_KEY_ID=" \o aws_access_key_id,
      "-e", "AWS_SECRET_ACCESS_KEY=" \o aws_secret_access_key>>

SchemeParameters(scheme, aws_access_key_id, aws_secret_access_key) ==
    <<"--conf", "spark.hadoop.fs." \o scheme \o ".awsAccessKeyId=" \o aws_access_key_id,
      "--conf", "spark.hadoop.fs." \o scheme \o ".awsSecretAccessKey=" \o aws_secret_access_key>>

\* the credential configuration entries: the loop over s3 and s3n, then the
\* s3a and executor environment entries
AwsSparkParameters(aws_access_key_id, aws_secret_access_key) ==
    SchemeParameters("s3", aws_access_key_id, aws_secret_access_key)
    \o SchemeParameters("s3n", aws_access_key_id, aws_secret_access_key)
    \o <<"--conf", "spark.hadoop.fs.s3a.access.key=" \o aws_access_key_id,
         "--conf", "spark.hadoop.fs.s3a.secret.key=" \o aws_secret_access_key,
         "--conf", "spark.executorEnv.AWS_ACCESS_KEY_ID=" \o aws_access_key_id,
         "--conf", "spark.executorEnv.AWS_SECRET_ACCESS_KEY=" \o aws_secret_access_key>>

WorkDirParameters(work_dir) ==
    IF Truthy(work_dir) THEN <<"-v", work_dir.v \o ":/data">> ELSE <<>>

\* --net=host, or port forwarding to the container port
NetParameters(run_mac, port, container_port) ==
    IF ~run_mac THEN <<"--net=host">> ELSE <<"-p", Str(port) \o ":" \o container_port>>

\* ------------------------------------------------------------ call_deca
call_deca(master_ip, arguments, memory, override_parameters, work_dir, run_local, aws_access_key_id, aws_secret_access_key, exit_ok) ==
    IF Truthy(aws_access_key_id) /\ ~Truthy(aws_secret_access_key)
    THEN Outcome("UserError", <<>>, <<>>, <<>>)
    ELSE LET keys == Truthy(aws_access_key_id)
             default_params ==
                 S3Defaults(run_local)
                 \o (IF keys
                     THEN <<"--packages", "com.amazonaws:aws-java-sdk-pom:1.10.34,org.apache.hadoop:hadoop-aws:2.7.4",
                            "--conf", "spark.hadoop.fs.s3a.impl=org.apache.hadoop.fs.s3a.S3AFileSystem">>
                          \o AwsSparkParameters(aws_access_key_id.v, aws_secret_access_key.v)
                     ELSE <<>>)
             dp == <<"--log-driver", "none", "--net=host">>
                   \o (IF keys THEN AwsDockerParameters(aws_access_key_id.v, aws_secret_access_key.v)
                       ELSE <<>>)
                   \o WorkDirParameters(work_dir)
             p == make_parameters(master_ip, default_params, memory, arguments, override_parameters)
         IN  IF p.err # ""
             THEN Outcome(p.err, <<>>, <<>>, <<>>)
             ELSE Outcome(RunError(exit_ok),
                          <<DockerRun("quay.io/ucsc_cgl/deca:0.1.0--7d13833a1220001481c4de0489e893c93ee3310f",
                                      p.ret, dp)>>, <<>>, <<>>)

\* ----------------------------------------------------------- mango
\* default_params of both mango functions after the credentials block
MangoDefaults(run_local, aws_access_key_id, aws_secret_access_key) ==
    S3Defaults(run_local)
    \o (IF Truthy(aws_access_key_id)
        THEN <<"--conf", "spark.hadoop.fs.s3a.impl=org.apache.hadoop.fs.s3a.S3AFileSystem">>
             \o AwsSparkParameters(aws_access_key_id.v, aws_secret_access_key.v)
        ELSE <<>>)

BrowserLog == <<"Starting the merge sort", "bdgenomics.workflows.tools.spark_tools">>

call_mango_browser_Propagates(master_ip, arguments, port, memory, override_parameters, work_dir, run_local, run_mac, aws_access_key_id, aws_secret_access_key, exit_ok) ==
    IF Truthy(aws_access_key_id) /\ ~Truthy(aws_secret_access_key)
    THEN Outcome("UserError", <<>>, <<>>, <<>>)
    ELSE LET default_params == MangoDefaults(run_local, aws_access_key_id, aws_secret_access_key)
             dp == NetParameters(run_mac, port, "8080")
                   \o (IF Truthy(aws_access_key_id)
                       THEN AwsDockerParameters(aws_access_key_id.v, aws_secret_access_key.v)
                       ELSE <<>>)
                   \o WorkDirParameters(work_dir)
             p == make_parameters(master_ip, default_params, memory, arguments, override_parameters)
         IN  IF p.err # ""
             THEN Outcome(p.err, <<>>, <<>>, <<>>)
             ELSE Outcome(RunError(exit_ok),
                          <<DockerRun("quay.io/ucsc_cgl/mango:latest", p.ret, dp)>>, <<>>,
                          BrowserLog)

call_mango_browser(master_ip, arguments, port, memory, override_parameters, work_dir, run_local, run_mac, aws_access_key_id, aws_secret_access_key, exit_ok) ==
    IF Truthy(aws_access_key_id) /\ ~Truthy(aws_secret_access_key)
    THEN Outcome("UserError", <<>>, <<>>, <<>>)
    ELSE LET default_params == MangoDefaults(run_local, aws_access_key_id, aws_secret_access_key)
             dp == NetParameters(run_mac, port, "8080")
                   \o (IF Truthy(aws_access_key_id)
                       THEN AwsDockerParameters(aws_access_key_id.v, aws_secret_access_key.v)
                       ELSE <<>>)
                   \o WorkDirParameters(work_dir)
             p == make_parameters(master_ip, default_params, memory, arguments, override_parameters)
         IN  IF p.err # ""
             THEN Outcome(p.err, <<>>, <<>>, <<>>)
             ELSE Outcome("",
                          <<DockerRun("quay.io/ucsc_cgl/mango:latest", p.ret, dp)>>, <<>>,
                          BrowserLog \o (IF exit_ok THEN <<>> ELSE <<"docker exited">>))

call_mango_notebook(master_ip, arguments, port, memory, override_parameters, work_dir, run_local, run_mac, aws_access_key_id, aws_secret_access_key, exit_ok) ==
    IF Truthy(aws_access_key_id) /\ ~Truthy(aws_secret_access_key)
    THEN Outcome("UserError", <<>>, <<>>, <<>>)
    ELSE LET default_params == MangoDefaults(run_local, aws_access_key_id, aws_secret_access_key)
             dp == NetParameters(run_mac, port, "8888")
                   \o <<"--entrypoint=/home/mango/bin/mango-notebook">>
                   \o (IF Truthy(aws_access_key_id)
                       THEN AwsDockerParameters(aws_access_key_id.v, aws_secret_access_key.v)
                       ELSE <<>>)
                   \o WorkDirParameters(work_dir)
             p == make_parameters(master_ip, default_params, memory, arguments, override_parameters)
         IN  IF p.err # ""
             THEN Outcome(p.err, <<>>, <<>>, <<>>)
             ELSE Outcome(RunError(exit_ok),
                          <<DockerRun("quay.io/ucsc_cgl/mango:latest", p.ret, dp)>>, <<>>, <<>>)

\* ---------------------------------------------------------------- inputs
Tokens == {"--", "in.adam"}
DefaultTokens == {"--", "--master", "--conf"}
Lists(T, n) == UNION {[1..k -> T] : k \in 0..n}
ArgLists == Lists(Tokens, MaxLen)
DefaultLists == Lists(DefaultTokens, MaxLen)
OptLists == {NoneList} \cup {Some(l) : l \in ArgLists}
Memories == {NoneInt} \cup {Some(m) : m \in 0..MaxMemory}
Addresses == {MasterAddress(""), MasterAddress("node1"),
              WithActual(MasterAddress("node1"), "10.0.0.5")}
MasterIps == {NoneAddress} \cup Addresses
AccessKeys == {NoneStr, Some(""), Some("AKIA")}
SecretKeys == {NoneStr, Some(""), Some("wJal")}
WorkDirs == {NoneStr, Some("/mnt")}
NativePaths == {NoneStr, Some("/opt/adam")}
Urls == {"s3://b/k", "hdfs://node1/k"}
BrowserPort == 8080
NotebookPort == 8888

\* ----------------------------------------------------------------- state
VARIABLES pc, op, args, ret, argAfter, err, dockerCalls, checkCalls, log,
          objects, retRef, first, calls

vars == <<pc, op, args, ret, argAfter, err, dockerCalls, checkCalls, log,
          objects, retRef, first, calls>>

\* arguments of a call; the fields a function does not take keep these values
NoArgs ==
    [master_ip |-> NoneAddress, default_parameters |-> <<>>, memory |-> NoneInt,
     arguments |-> <<>>, override_parameters |-> NoneList, docker_parameters |-> NoneList,
     work_dir |-> NoneStr, run_local |-> FALSE, run_mac |-> FALSE, port |-> 0,
     native_adam_path |-> NoneStr, aws_access_key_id |-> NoneStr,
     aws_secret_access_key |-> NoneStr, exit_ok |-> TRUE]

Init ==
    /\ pc = "idle"
    /\ op = ""
    /\ args = NoArgs
    /\ ret = NoneList
    /\ argAfter = NoneList
    /\ err = ""
    /\ dockerCalls = <<>>
    /\ checkCalls = <<>>
    /\ log = <<>>
    /\ objects = Heap(<<>>, <<>>, <<>>)
    /\ retRef = ""
    /\ first = NoneList
    /\ calls = 0

\* the state after a call_* function with outcome o
Finish(name, a, o) ==
    /\ pc' = IF o.err = "" THEN "returned" ELSE "raised"
    /\ op' = name
    /\ args' = a
    /\ ret' = NoneList
    /\ argAfter' = NoneList
    /\ err' = o.err
    /\ dockerCalls' = o.dockerCalls
    /\ checkCalls' = o.checkCalls
    /\ log' = o.log
    /\ calls' = 1
    /\ UNCHANGED <<objects, retRef, first>>

\* one call of _make_parameters on the caller's list objects as they stand in
\* heap: the returned value, the returned object and the objects afterwards
Assemble(m, heap, mem, override_given) ==
    LET r == make_parameters(m, heap.default_parameters, mem, heap.arguments,
                             [isNone |-> ~override_given, v |-> heap.override_parameters])
        h == make_parameters_objects(m, heap, mem, override_given)
    IN  /\ pc' = IF r.err = "" THEN "returned" ELSE "raised"
        /\ ret' = IF r.err = "" THEN Some(r.ret) ELSE NoneList
        /\ err' = r.err
        /\ objects' = h.heap
        /\ retRef' = h.ref

MakeParameters ==
    /\ pc = "idle"
    /\ \E m \in MasterIps, d \in DefaultLists, mem \in Memories, a \in ArgLists, o \in OptLists :
         /\ Assemble(m, Heap(d, a, o.v), mem, ~o.isNone)
         /\ op' = "_make_parameters"
         /\ args' = [NoArgs EXCEPT !.master_ip = m, !.default_parameters = d,
                                   !.memory = mem, !.arguments = a,
                                   !.override_parameters = o]
         /\ calls' = 1
         /\ UNCHANGED <<argAfter, dockerCalls, checkCalls, log, first>>

\* the caller calls again with the same arguments: the same list objects, as
\* the earlier call left them
MakeParametersAgain ==
    /\ op = "_make_parameters"
    /\ pc \in {"returned", "raised"}
    /\ calls < MaxCalls
    /\ Assemble(args.master_ip, objects, args.memory, ~args.override_parameters.isNone)
    /\ first' = IF calls = 1 THEN ret ELSE first
    /\ calls' = calls + 1
    /\ UNCHANGED <<op, args, argAfter, dockerCalls, checkCalls, log>>

DockerParameters ==
    /\ pc = "idle"
    /\ \E m \in Addresses, o \in OptLists :
         LET r == docker_parameters(m, o)
         IN  /\ pc' = "returned"
             /\ op' = "docker_parameters"
             /\ args' = [NoArgs EXCEPT !.master_ip = m, !.docker_parameters = o]
             /\ ret' = r.ret
             /\ argAfter' = r.arg
             /\ calls' = 1
             /\ UNCHANGED <<err, dockerCalls, checkCalls, log, objects, retRef, first>>

CallConductor ==
    /\ pc = "idle"
    /\ \E m \in Addresses, src \in Urls, dst \in Urls, mem \in Memories, o \in OptLists,
          ok \in BOOLEAN :
         Finish("call_conductor",
                [NoArgs EXCEPT !.master_ip = m, !.arguments = <<"-C", src, dst>>,
                               !.memory = mem, !.override_parameters = o, !.exit_ok = ok],
                call_conductor(m, src, dst, mem, o, ok))

CallAdam ==
    /\ pc = "idle"
    /\ \E m \in Addresses, a \in ArgLists, mem \in Memories, o \in OptLists,
          local \in BOOLEAN, native \in NativePaths, ok \in BOOLEAN :
         Finish("call_adam",
                [NoArgs EXCEPT !.master_ip = m, !.arguments = a, !.memory = mem,
                               !.override_parameters = o, !.run_local = local,
                               !.native_adam_path = native, !.exit_ok = ok],
                call_adam(m, a, mem, o, local, native, ok))

CallDeca ==
    /\ pc = "idle"
    /\ \E m \in MasterIps, a \in ArgLists, mem \in Memories, o \in OptLists,
          wd \in WorkDirs, local \in BOOLEAN, ak \in AccessKeys, sk \in SecretKeys,
          ok \in BOOLEAN :
         Finish("call_deca",
                [NoArgs EXCEPT !.master_ip = m, !.arguments = a, !.memory = mem,
                               !.override_parameters = o, !.work_dir = wd,
                               !.run_local = local, !.aws_access_key_id = ak,
                               !.aws_secret_access_key = sk, !.exit_ok = ok],
                call_deca(m, a, mem, o, wd, local, ak, sk, ok))

CallMangoBrowser ==
    /\ pc = "idle"
    /\ \E m \in MasterIps, a \in ArgLists, mem \in Memories, o \in OptLists,
          wd \in WorkDirs, local \in BOOLEAN, mac \in BOOLEAN, ak \in AccessKeys,
          sk \in SecretKeys, ok \in BOOLEAN :
         Finish("call_mango_browser",
                [NoArgs EXCEPT !.master_ip = m, !.arguments = a, !.memory = mem,
                               !.override_parameters = o, !.work_dir = wd,
                               !.run_local = local, !.run_mac = mac, !.port = BrowserPort,
                               !.aws_access_key_id = ak, !.aws_secret_access_key = sk,
                               !.exit_ok = ok],
                call_mango_browser(m, a, BrowserPort, mem, o, wd, local, mac, ak, sk, ok))

CallMangoNotebook ==
    /\ pc = "idle"
    /\ \E m \in MasterIps, a \in ArgLists, mem \in Memories, o \in OptLists,
          wd \in WorkDirs, local \in BOOLEAN, mac \in BOOLEAN, ak \in AccessKeys,
          sk \in SecretKeys, ok \in BOOLEAN :
         Finish("call_mango_notebook",
                [NoArgs EXCEPT !.master_ip = m, !.arguments = a, !.memory = mem,
                               !.override_parameters = o, !.work_dir = wd,
                               !.run_local = local, !.run_mac = mac, !.port = NotebookPort,
                               !.aws_access_key_id = ak, !.aws_secret_access_key = sk,
                               !.exit_ok = ok],
                call_mango_notebook(m, a, NotebookPort, mem, o, wd, local, mac, ak, sk, ok))

Next ==
    \/ MakeParameters
    \/ MakeParametersAgain
    \/ DockerParameters
    \/ CallConductor
    \/ CallAdam
    \/ CallDeca
    \/ CallMangoBrowser
    \/ CallMangoNotebook

Spec == Init /\ [][Next]_vars

\* ================================================================ claims
\* vocabulary of the claims, written out independently of the definitions above
Count(s, x) == Cardinality({i \in DOMAIN s : s[i] = x})
Holds(s, x) == \E i \in DOMAIN s : s[i] = x
\* the pair <<flag, value>> occurs at consecutive positions up to position last
HoldsPair(s, flag, value, last) ==
    \E i \in DOMAIN s : i + 1 <= last /\ s[i] = flag /\ s[i + 1] = value
Assembled == op = "_make_parameters" /\ pc = "returned"
BothGiven == ~args.memory.isNone /\ ~args.override_parameters.isNone
NeitherGiven == args.memory.isNone /\ args.override_parameters.isNone
LeaderGiven == ~args.master_ip.isNone /\ args.master_ip.nominal # ""
LeaderEntries(L) ==
    <<"--master", "spark://" \o L \o ":7077",
      "--conf", "spark.hadoop.fs.default.name=hdfs://" \o L \o ":8020">>
DriverEntry(m) == "spark.driver.memory=" \o ToString(m) \o "g"
ExecutorEntry(m) == "spark.executor.memory=" \o ToString(m) \o "g"
MemoryEntries(m) == <<"--conf", DriverEntry(m), "--conf", ExecutorEntry(m)>>
\* position of the separator the assembler adds
SeparatorAt(list, arguments) == Len(list) - Len(arguments)

\* C1: the assembler raises the precondition error when memory and
\* override_parameters are both given and when both are absent, and returns a
\* list only when exactly one of them is given.
C1_ExactlyOneGoverns ==
    op = "_make_parameters" =>
        /\ (BothGiven \/ NeitherGiven) => (pc = "raised" /\ err = "UserError" /\ ret.isNone)
        /\ ~(BothGiven \/ NeitherGiven) => (pc = "returned" /\ err = "" /\ ~ret.isNone)

C1_Witness == op = "_make_parameters" /\ BothGiven /\ pc = "raised"

\* C2 as stated: with a leader L and memory m the list is the leader entries,
\* then the memory entries, then the defaults, '--' and the arguments.
C2_LeaderEntriesFirst ==
    (Assembled /\ LeaderGiven /\ ~args.memory.isNone) =>
        ret.v = LeaderEntries(args.master_ip.nominal) \o MemoryEntries(args.memory.v)
                \o args.default_parameters \o <<"--">> \o args.arguments

\* C2 amended: with a leader L and memory m the list is the memory entries,
\* then the leader entries (port 7077, then port 8020), then the defaults,
\* '--' and the arguments.
C2_MemoryThenLeader ==
    (Assembled /\ LeaderGiven /\ ~args.memory.isNone) =>
        ret.v = MemoryEntries(args.memory.v) \o LeaderEntries(args.master_ip.nominal)
                \o args.default_parameters \o <<"--">> \o args.arguments

C2_Witness ==
    /\ Assembled /\ LeaderGiven /\ ~args.memory.isNone
    /\ args.default_parameters # <<>> /\ args.arguments # <<>>
    /\ ret.v[2] = "spark.driver.memory=1g"

\* the tool arguments are the tail of the list after position n
ArgumentsFollow(list, n, arguments) ==
    /\ n >= 1 /\ n <= Len(list)
    /\ list[n] = "--"
    /\ SubSeq(list, n + 1, Len(list)) = arguments

\* C3 as stated: '--' occurs exactly once in every returned list and the tool
\* arguments follow that occurrence in the caller's order.
C3_SeparatorExactlyOnce ==
    Assembled =>
        /\ Count(ret.v, "--") = 1
        /\ \E n \in DOMAIN ret.v : ArgumentsFollow(ret.v, n, args.arguments)

\* C3 amended: the assembler adds exactly one '--': it stands right before the
\* tool arguments, which end the list in the caller's order, and '--' occurs
\* once more than in the defaults, overrides and arguments together (so
\* exactly once when none of them holds '--').
C3_OneSeparatorAdded ==
    Assembled =>
        /\ ArgumentsFollow(ret.v, SeparatorAt(ret.v, args.arguments), args.arguments)
        /\ Count(ret.v, "--") = 1 + Count(args.default_parameters, "--")
                                  + Count(args.override_parameters.v, "--")
                                  + Count(args.arguments, "--")

C3_Witness ==
    /\ Assembled
    /\ Holds(args.arguments, "--") /\ Count(ret.v, "--") = 2
    /\ Len(args.arguments) = 2

\* C8: with memory m, no overrides and no leader (None or empty) the list
\* starts with the driver and executor memory entries '<m>g' and goes on with
\* the defaults: the assembler adds no '--master' and no filesystem entry.
C8_MemoryWithoutLeader ==
    (Assembled /\ ~LeaderGiven /\ ~args.memory.isNone) =>
        /\ Len(ret.v) = 4 + Len(args.default_parameters) + 1 + Len(args.arguments)
        /\ SubSeq(ret.v, 1, 4) = MemoryEntries(args.memory.v)
        /\ SubSeq(ret.v, 5, 4 + Len(args.default_parameters)) = args.default_parameters
        /\ Count(ret.v, "--master") = Count(args.default_parameters, "--master")
        /\ \A i \in DOMAIN ret.v, L \in {"", "None", "node1"} :
              ret.v[i] # "spark.hadoop.fs.default.name=hdfs://" \o L \o ":8020"

C8_Witness ==
    /\ Assembled /\ args.master_ip.isNone /\ ~args.memory.isNone
    /\ ret.v[4] = "spark.executor.memory=1g"

\* C9: with overrides and no memory the list starts with the override entries
\* verbatim, goes on with the leader entries (if any), the defaults, '--' and
\* the arguments, and holds no generated driver or executor memory entry.
C9_OverridesVerbatim ==
    (Assembled /\ ~args.override_parameters.isNone) =>
        LET o == args.override_parameters.v
        IN  /\ Len(ret.v) = Len(o) + (IF LeaderGiven THEN 4 ELSE 0)
                            + Len(args.default_parameters) + 1 + Len(args.arguments)
            /\ SubSeq(ret.v, 1, Len(o)) = o
            /\ \A i \in DOMAIN ret.v, m \in 0..(MaxMemory + 1) :
                  ret.v[i] # DriverEntry(m) /\ ret.v[i] # ExecutorEntry(m)

C9_Witness ==
    /\ Assembled /\ args.memory.isNone
    /\ Len(args.override_parameters.v) = 2
    /\ args.override_parameters.v[1] # args.override_parameters.v[2]

\* ------------------------------------------------ claims on the call_* functions
ToolOps == {"call_conductor", "call_adam", "call_deca", "call_mango_browser",
            "call_mango_notebook"}
KeyOps == {"call_deca", "call_mango_browser", "call_mango_notebook"}
AccessGiven == ~args.aws_access_key_id.isNone /\ args.aws_access_key_id.v # ""
SecretGiven == ~args.aws_secret_access_key.isNone /\ args.aws_secret_access_key.v # ""
NoExternalRun == dockerCalls = <<>> /\ checkCalls = <<>>

\* C4: in every call_* function (the native path of call_adam included) a call
\* with memory and overrides both given or both absent, or with an access key
\* and no secret key, raises the precondition error and makes no container
\* run and no local process invocation.
C4_ViolationsBeforeAnyRun ==
    (op \in ToolOps /\ (BothGiven \/ NeitherGiven \/ (AccessGiven /\ ~SecretGiven))) =>
        (pc = "raised" /\ err = "UserError" /\ NoExternalRun)

\* C5 as stated: with nominal = actual the result is the supplied list
\* unchanged, or a newly created list when none was supplied; with nominal #
\* actual it is the supplied list (or a new empty one) with the one option
\* '--add-host=spark-master:<actual>' appended.
C5_ListOrNewList ==
    op = "docker_parameters" =>
        LET supplied == args.docker_parameters
            option == "--add-host=spark-master:" \o args.master_ip.actual
        IN  IF args.master_ip.nominal = args.master_ip.actual
            THEN /\ ~ret.isNone
                 /\ ret.v = supplied.v
            ELSE /\ ~ret.isNone
                 /\ ret.v = supplied.v \o <<option>>

\* C5 amended: with nominal = actual the result is what the caller supplied,
\* the list unchanged or None when none was supplied; with nominal # actual it
\* is the supplied list (or a new empty one) with the one option
\* '--add-host=spark-master:<actual>' appended.
C5_SuppliedOrAppended ==
    op = "docker_parameters" =>
        LET supplied == args.docker_parameters
            option == "--add-host=spark-master:" \o args.master_ip.actual
        IN  IF args.master_ip.nominal = args.master_ip.actual
            THEN /\ ret.isNone = supplied.isNone
                 /\ ret.v = supplied.v
                 /\ argAfter = supplied
            ELSE /\ ~ret.isNone
                 /\ ret.v = supplied.v \o <<option>>

C5_Witness ==
    /\ op = "docker_parameters"
    /\ args.master_ip.nominal # args.master_ip.actual
    /\ Len(args.docker_parameters.v) = 2
    /\ ret.v[3] = "--add-host=spark-master:10.0.0.5"

\* the credential configuration entries for access key a and secret key k
CredentialEntries(a, k) ==
    {"spark.hadoop.fs.s3.awsAccessKeyId=" \o a, "spark.hadoop.fs.s3.awsSecretAccessKey=" \o k,
     "spark.hadoop.fs.s3n.awsAccessKeyId=" \o a, "spark.hadoop.fs.s3n.awsSecretAccessKey=" \o k,
     "spark.hadoop.fs.s3a.access.key=" \o a, "spark.hadoop.fs.s3a.secret.key=" \o k,
     "spark.executorEnv.AWS_ACCESS_KEY_ID=" \o a, "spark.executorEnv.AWS_SECRET_ACCESS_KEY=" \o k}

\* C6: in call_deca and the two mango functions an access key without a
\* secret key raises the precondition error; with both keys (and exactly one
\* of memory and overrides) one container run is made, whose options set
\* AWS_ACCESS_KEY_ID and AWS_SECRET_ACCESS_KEY to the supplied values and
\* whose parameters hold every credential entry, with the same values, before
\* the separator.
C6_CredentialsPassed ==
    op \in KeyOps =>
        /\ (AccessGiven /\ ~SecretGiven) =>
               (pc = "raised" /\ err = "UserError" /\ NoExternalRun)
        /\ (AccessGiven /\ SecretGiven /\ ~(BothGiven \/ NeitherGiven)) =>
               /\ Len(dockerCalls) = 1
               /\ LET run == dockerCalls[1]
                      a == args.aws_access_key_id.v
                      k == args.aws_secret_access_key.v
                  IN  /\ HoldsPair(run.dockerParameters, "-e", "AWS_ACCESS_KEY_ID=" \o a,
                                   Len(run.dockerParameters))
                      /\ HoldsPair(run.dockerParameters, "-e", "AWS_SECRET_ACCESS_KEY=" \o k,
                                   Len(run.dockerParameters))
                      /\ \A e \in CredentialEntries(a, k) :
                            HoldsPair(run.parameters, "--conf", e,
                                      SeparatorAt(run.parameters, args.arguments) - 1)

C6_Witness ==
    /\ op = "call_deca" /\ AccessGiven /\ SecretGiven
    /\ Len(dockerCalls) = 1
    /\ Holds(dockerCalls[1].dockerParameters, "AWS_SECRET_ACCESS_KEY=wJal")
    /\ Holds(dockerCalls[1].parameters, "spark.hadoop.fs.s3a.access.key=AKIA")

\* C7: a failed container run or local process invocation raises to the
\* caller of call_conductor, call_adam, call_deca and call_mango_notebook;
\* call_mango_browser logs 'docker exited' and returns normally, while a
\* precondition error of the assembler still raises from it.
C7_FailurePropagation ==
    /\ (op \in (ToolOps \ {"call_mango_browser"}) /\ ~NoExternalRun /\ ~args.exit_ok) =>
           (pc = "raised" /\ err = "CalledProcessError")
    /\ (op = "call_mango_browser" /\ ~NoExternalRun /\ ~args.exit_ok) =>
           (pc = "returned" /\ err = "" /\ log # <<>> /\ log[Len(log)] = "docker exited")
    /\ (op = "call_mango_browser" /\ (BothGiven \/ NeitherGiven)) =>
           (pc = "raised" /\ err = "UserError")
    /\ (op \in ToolOps /\ ~NoExternalRun /\ args.exit_ok) => pc = "returned"

C7_Witness ==
    /\ op = "call_mango_browser" /\ ~args.exit_ok
    /\ Len(dockerCalls) = 1 /\ pc = "returned"
    /\ log[Len(log)] = "docker exited"

\* C10: in call_adam with run_local and no native path the parameters of the
\* container run have '--master local[*]' as their only '--master' setting and
\* hold no 'spark://<master_ip>:7077' and no filesystem entry for master_ip.
C10_LeaderDisregarded ==
    (op = "call_adam" /\ args.run_local /\ args.native_adam_path.isNone
        /\ dockerCalls # <<>>) =>
        LET p == dockerCalls[1].parameters
            n == SeparatorAt(p, args.arguments) - 1
            L == args.master_ip.nominal
        IN  /\ HoldsPair(p, "--master", "local[*]", n)
            /\ Count(SubSeq(p, 1, n), "--master")
                 = 1 + Count(args.override_parameters.v, "--master")
            /\ \A i \in 1..n :
                  /\ p[i] # "spark://" \o L \o ":7077"
                  /\ p[i] # "spark.hadoop.fs.default.name=hdfs://" \o L \o ":8020"

\* C11: a call of _make_parameters, returning or raising, leaves the caller's
\* default_parameters, arguments and override_parameters lists as they were;
\* the list it returns is a new object, none of the three, holding the
\* returned elements; and a further call with the same arguments returns a
\* list equal to the first call's.
C11_InputsUnchanged ==
    op = "_make_parameters" =>
        /\ objects.default_parameters = args.default_parameters
        /\ objects.arguments = args.arguments
        /\ objects.override_parameters = args.override_parameters.v
        /\ pc = "returned" =>
               /\ retRef \notin {"default_parameters", "arguments", "override_parameters"}
               /\ retRef = "new"
               /\ objects[retRef] = ret.v
        /\ pc = "raised" => (retRef = "" /\ ret.isNone)
        /\ calls >= 2 => ret = first

C11_Witness ==
    /\ op = "_make_parameters" /\ pc = "returned" /\ calls = 2
    /\ args.memory.isNone
    /\ Len(args.override_parameters.v) = 2 /\ Len(args.arguments) = 1
    /\ Len(ret.v) > Len(args.override_parameters.v) + Len(args.arguments)
    /\ ret = first

====
